---- MODULE Spec2Model ----
(***************************************************************************)
(* Model of sawdust-watcher: the monitor loop of main.run and the helpers  *)
(* white_pixel_ratio and write_image of detection.py.                      *)
(*                                                                         *)
(* Spec     : the monitor loop.  One pass of `while True` is two steps:    *)
(*            the scan block (main.py 69-101) and the button block         *)
(*            (main.py 103-108).  The clock is an environment variable     *)
(*            that advances between the steps and during a scan.           *)
(* SpecUnit : direct calls of white_pixel_ratio and write_image on inputs  *)
(*            drawn in the initial state, as test_detection.py makes them. *)
(*                                                                         *)
(* The OpenCV / camera / GPIO libraries are outside the repository: the    *)
(* thresholded frame a scan produces, whether cv.imwrite saves, whether a  *)
(* call raises and the button level are nondeterministic inputs.           *)
(* main.run has no try/except, so every exception raised inside the scan   *)
(* block leaves run(); that is the control state "crashed".                *)
(* detect() of detection.py takes (img, output_path, ...) and returns a    *)
(* float while main.run passes noise_size/threshold/morph_size and unpacks *)
(* a pair: with exactly these two files the call raises TypeError, which   *)
(* is the ScanDetectError outcome.  The returning outcome (ScanOk) is kept *)
(* as well, with the ratio computed as detect computes it (line 223).      *)
(***************************************************************************)
EXTENDS Integers, Sequences, FiniteSets, TLC

VARIABLES
    scan_interval,              \* config [op] scan_interval (seconds)
    coverage_threshold_percent, \* config [op] coverage_threshold_percent
    now,                        \* the value time.time() returns
    time_start,                 \* main.run local time_start
    alarm_active,               \* main.run local alarm_active
    led,                        \* LED output level
    buzzer,                     \* Buzzer output level
    pc,                         \* "loop" (line 67), "poll" (line 103), "crashed", "unit"
    coverage_ratio,             \* last ratio computed, <<count, size>>, or NoRatio
    outcome,                    \* how the scan block of this pass ended
    scanned,                    \* history: this pass entered the scan (line 71)
    alarm_at_top,               \* history: alarm_active at the top of this pass
    window_elapsed,             \* history: now >= time_start + scan_interval at the top
    last_scan,                  \* history: clock at the last scan since reset/alarm, or NoTime
    button,                     \* history: button.is_pressed as read by this pass
    img,                        \* SpecUnit: the frame handed to white_pixel_ratio
    imwrite_ok,                 \* SpecUnit: what cv.imwrite returns
    write_out                   \* outcome of the last write_image call

vars == <<scan_interval, coverage_threshold_percent, now, time_start, alarm_active,
          led, buzzer, pc, coverage_ratio, outcome, scanned, alarm_at_top,
          window_elapsed, last_scan, button, img, imwrite_ok, write_out>>

----------------------------------------------------------------------------
(* Bounds *)

MaxTime == 12
MaxScanExtra == 1
MaxScanPixels == 4
MaxSide == 3
MaxPixels == 9

(* Program constants *)

WarmUp == 3
White == 255

ScanIntervals == {2, 5}
ThresholdPercents == {25, 100}
PixelValues == {0, 128, White}
BinaryValues == {0, White}

NoRatio == <<0, 0>>
NoTime == 0 - 1
NoWrite == [kind |-> "none", value |-> "none"]

----------------------------------------------------------------------------
(* Frames: a frame is a sequence of rows, each a sequence of pixel values. *)

FramesOf(values, side, pixels) ==
    UNION { [1..h -> [1..w -> values]] :
            <<h, w>> \in { s \in (1..side) \X (1..side) : s[1] * s[2] <= pixels } }

ThreshFrames == FramesOf(BinaryValues, MaxScanPixels, MaxScanPixels)
TestFrames == FramesOf(PixelValues, MaxSide, MaxPixels)

RECURSIVE SumSeq(_)
SumSeq(s) == IF s = <<>> THEN 0 ELSE Head(s) + SumSeq(Tail(s))

\* img.size
Size(f) == SumSeq([r \in 1..Len(f) |-> Len(f[r])])

\* np.sum(img == 255): the comparison gives a boolean array, the sum adds it up
EqMask(f, v) == [r \in 1..Len(f) |-> [c \in 1..Len(f[r]) |-> IF f[r][c] = v THEN 1 ELSE 0]]
SumMask(m) == SumSeq([r \in 1..Len(m) |-> SumSeq(m[r])])

GeMask(f, v) == [r \in 1..Len(f) |-> [c \in 1..Len(f[r]) |-> IF f[r][c] >= v THEN 1 ELSE 0]]
white_pixel_ratio_nonzero(f) == <<SumMask(GeMask(f, 1)), Size(f)>>

\* detection.white_pixel_ratio: the ratio as the pair <<numerator, denominator>>
white_pixel_ratio(f) == <<SumMask(EqMask(f, White)), Size(f)>>

\* detection.write_image: returns None when cv.imwrite saved, raises otherwise
write_image(saved) ==
    IF saved THEN [kind |-> "return", value |-> "None"]
             ELSE [kind |-> "raise", value |-> "ValueError"]

----------------------------------------------------------------------------
(* The monitor loop *)

ScanDueNoAlarmCheck == now >= time_start + scan_interval

\* main.py 69-70
ScanDue == ~alarm_active /\ now >= time_start + scan_interval

ExceedsThresholdStrict(ratio) == ratio[1] * 100 > coverage_threshold_percent * ratio[2]

\* main.py 94-97: coverage_ratio >= coverage_threshold_percent / 100
ExceedsThreshold(ratio) == ratio[1] * 100 >= coverage_threshold_percent * ratio[2]

Init ==
    /\ scan_interval \in ScanIntervals
    /\ coverage_threshold_percent \in ThresholdPercents
    /\ now = 0
    /\ time_start = 0
    /\ alarm_active = FALSE
    /\ led = FALSE
    /\ buzzer = FALSE
    /\ pc = "loop"
    /\ coverage_ratio = NoRatio
    /\ outcome = "none"
    /\ scanned = FALSE
    /\ alarm_at_top = FALSE
    /\ window_elapsed = FALSE
    /\ last_scan = NoTime
    /\ button = FALSE
    /\ img = <<>>
    /\ imwrite_ok = TRUE
    /\ write_out = NoWrite

config == <<scan_interval, coverage_threshold_percent>>
unit == <<img, imwrite_ok>>

\* the clock advances between any two statements of the loop
Tick ==
    /\ pc \in {"loop", "poll"}
    /\ now < MaxTime
    /\ now' = now + 1
    /\ UNCHANGED <<config, unit, time_start, alarm_active, led, buzzer, pc,
                   coverage_ratio, outcome, scanned, alarm_at_top, window_elapsed,
                   last_scan, button, write_out>>

\* history written at the top of every pass
Top ==
    /\ alarm_at_top' = alarm_active
    /\ window_elapsed' = (now >= time_start + scan_interval)

\* main.py 69-70 false: the pass goes straight to line 103
SkipScan ==
    /\ pc = "loop"
    /\ ~ScanDue
    /\ Top
    /\ pc' = "poll"
    /\ scanned' = FALSE
    /\ outcome' = "none"
    /\ UNCHANGED <<config, unit, now, time_start, alarm_active, led, buzzer,
                   coverage_ratio, last_scan, button, write_out>>

\* main.py 99-101
RaiseAlarm ==
    /\ alarm_active' = TRUE
    /\ led' = TRUE
    /\ buzzer' = TRUE

\* main.py 71-101 with every call returning
ScanOk ==
    /\ pc = "loop"
    /\ ScanDue
    /\ Top
    /\ \E d \in 0..MaxScanExtra :
          /\ now + WarmUp + d <= MaxTime
          /\ now' = now + WarmUp + d
    /\ \E f \in ThreshFrames :
          /\ coverage_ratio' = white_pixel_ratio(f)
          /\ IF ExceedsThreshold(white_pixel_ratio(f))
                THEN RaiseAlarm /\ last_scan' = NoTime
                ELSE UNCHANGED <<alarm_active, led, buzzer>> /\ last_scan' = now
    /\ write_out' = write_image(TRUE)
    /\ scanned' = TRUE
    /\ outcome' = "ok"
    /\ pc' = "poll"
    /\ UNCHANGED <<config, unit, time_start, button>>

\* an exception raised at `at` inside the scan block: nothing catches it
ScanRaises(at, d) ==
    /\ pc = "loop"
    /\ ScanDue
    /\ Top
    /\ now + d <= MaxTime
    /\ now' = now + d
    /\ scanned' = TRUE
    /\ outcome' = at
    /\ pc' = "crashed"
    /\ last_scan' = now
    /\ UNCHANGED <<config, unit, time_start, alarm_active, led, buzzer,
                   coverage_ratio, button>>

\* main.py 73-75: gpio_control.grab_frame raises (camera busy or absent)
ScanCaptureError ==
    /\ \E d \in {0, WarmUp} : ScanRaises("CaptureError", d)
    /\ UNCHANGED write_out

\* main.py 76-81: detection.detect raises
ScanDetectError ==
    /\ ScanRaises("DetectError", WarmUp)
    /\ UNCHANGED write_out

\* main.py 84-90: detection.write_image raises ValueError
ScanWriteError ==
    /\ ScanRaises("WriteError", WarmUp)
    /\ write_out' = write_image(FALSE)

ResetAlarmOnlyIfActive ==
    IF alarm_active
       THEN alarm_active' = FALSE /\ time_start' = now /\ buzzer' = FALSE /\ led' = FALSE
       ELSE UNCHANGED <<alarm_active, time_start, buzzer, led>>

ResetAlarmKeepWindow ==
    /\ alarm_active' = FALSE
    /\ time_start' = time_start
    /\ buzzer' = FALSE
    /\ led' = FALSE

ResetAlarmLedStaysOn ==
    /\ alarm_active' = FALSE
    /\ time_start' = now
    /\ buzzer' = FALSE
    /\ led' = led

\* main.py 104-108
ResetAlarm ==
    /\ alarm_active' = FALSE
    /\ time_start' = now
    /\ buzzer' = FALSE
    /\ led' = FALSE

\* main.py 103-108: the button is read once per pass, after the scan block
PollButton ==
    /\ pc = "poll"
    /\ \E pressed \in BOOLEAN :
          /\ button' = pressed
          /\ IF pressed
                THEN ResetAlarm /\ last_scan' = NoTime
                ELSE UNCHANGED <<alarm_active, time_start, buzzer, led, last_scan>>
    /\ pc' = "loop"
    /\ UNCHANGED <<config, unit, now, coverage_ratio, outcome, scanned,
                   alarm_at_top, window_elapsed, write_out>>

Next ==
    \/ Tick
    \/ SkipScan
    \/ ScanOk
    \/ ScanCaptureError
    \/ ScanDetectError
    \/ ScanWriteError
    \/ PollButton

Spec == Init /\ [][Next]_vars

----------------------------------------------------------------------------
(* Direct calls of the detection helpers *)

InitUnit ==
    /\ scan_interval = 5
    /\ coverage_threshold_percent = 25
    /\ now = 0
    /\ time_start = 0
    /\ alarm_active = FALSE
    /\ led = FALSE
    /\ buzzer = FALSE
    /\ pc = "unit"
    /\ coverage_ratio = NoRatio
    /\ outcome = "none"
    /\ scanned = FALSE
    /\ alarm_at_top = FALSE
    /\ window_elapsed = FALSE
    /\ last_scan = NoTime
    /\ button = FALSE
    /\ img \in TestFrames
    /\ imwrite_ok \in BOOLEAN
    /\ write_out = NoWrite

loop == <<now, time_start, alarm_active, led, buzzer, pc, outcome, scanned,
          alarm_at_top, window_elapsed, last_scan, button>>

\* test_detection.py 25: ratio = detection.white_pixel_ratio(img)
CallWhitePixelRatio ==
    /\ pc = "unit"
    /\ coverage_ratio' = white_pixel_ratio(img)
    /\ UNCHANGED <<config, unit, loop, write_out>>

\* test_detection.py 50: detection.write_image(img=img, output_path=...)
CallWriteImage ==
    /\ pc = "unit"
    /\ write_out' = write_image(imwrite_ok)
    /\ UNCHANGED <<config, unit, loop, coverage_ratio>>

NextUnit ==
    \/ CallWhitePixelRatio
    \/ CallWriteImage

SpecUnit == InitUnit /\ [][NextUnit]_vars

----------------------------------------------------------------------------
(* Vocabulary of the claims *)

ScanErrors == {"CaptureError", "DetectError", "WriteError"}

\* a step that is the scan block of a pass (taken or skipped)
ScanBlockStep == pc = "loop" /\ pc' # "loop"

\* a step that is the button block of a pass
PollStep == pc = "poll" /\ pc' = "loop"

Positions(f) == UNION { { <<r, c>> : c \in 1..Len(f[r]) } : r \in 1..Len(f) }

\* test_detection.py 22
Diag3 == << <<White, 0, 0>>, <<0, White, 0>>, <<0, 0, White>> >>

----------------------------------------------------------------------------
(* Claims *)

\* C1 (as stated): a completed scan leaves the alarm and both outputs on when
\* its ratio is strictly above coverage_threshold_percent / 100, and leaves
\* the alarm and both outputs off when it is not strictly above.
C1_AlarmIffExceeds ==
    (pc = "poll" /\ outcome = "ok") =>
        IF ExceedsThresholdStrict(coverage_ratio)
           THEN alarm_active /\ led /\ buzzer
           ELSE ~alarm_active /\ ~led /\ ~buzzer

\* C2 (as stated): alarm_active goes from true to false only in a button block
\* that read the button pressed, from false to true only in a scan whose ratio
\* is strictly above the threshold, and while it is true every step other than
\* such a button block leaves it true with both outputs on.
C2_AlarmLatched ==
    [][ /\ (alarm_active /\ ~alarm_active') => (PollStep /\ button')
        /\ (~alarm_active /\ alarm_active') =>
              (ScanBlockStep /\ outcome' = "ok" /\ ExceedsThresholdStrict(coverage_ratio'))
        /\ (alarm_active /\ ~(PollStep /\ button')) =>
              (alarm_active' /\ led' /\ buzzer') ]_vars

\* C3: a pass that starts with the alarm active and reads the button pressed
\* ends with alarm_active false, both outputs off and time_start equal to the
\* clock at the read, and has run no scan.
C3_ResetWhileActive ==
    [][ (PollStep /\ alarm_at_top /\ button') =>
            /\ ~alarm_active'
            /\ ~led'
            /\ ~buzzer'
            /\ time_start' = now
            /\ ~scanned ]_vars

\* C3 witness: such a pass has ended, and the scan window had elapsed at its top.
C3_Witness ==
    /\ pc = "loop"
    /\ alarm_at_top
    /\ button
    /\ window_elapsed
    /\ ~scanned
    /\ ~alarm_active
    /\ ~led
    /\ ~buzzer
    /\ time_start = now
    /\ time_start > 0

\* C4 (as stated): a scan that fails leaves the loop running (the pass goes on
\* to poll the button) with alarm_active as it was at the top of the pass.
C4_ScanFailureNonFatal ==
    outcome \in ScanErrors => (pc # "crashed" /\ alarm_active = alarm_at_top)

\* C5 (as stated): a scan that follows another scan, with no alarm raised and no
\* reset observed in between, starts at least scan_interval after that scan started.
C5_ScansSeparated ==
    [][ (ScanBlockStep /\ scanned' /\ last_scan # NoTime) =>
            now - last_scan >= scan_interval ]_vars

\* C6: a pass runs a scan if and only if, at its top, alarm_active was false
\* and the clock had reached time_start + scan_interval.
C6_ScanIffDue ==
    scanned <=> (~alarm_at_top /\ window_elapsed)

\* C6 witness: a pass has run a scan, and its window had elapsed with no alarm.
C6_Witness ==
    /\ pc = "poll"
    /\ scanned
    /\ outcome = "ok"
    /\ ~alarm_at_top
    /\ window_elapsed

\* C7 (as stated): a button block that reads the button pressed while the alarm
\* is not active changes none of alarm_active, time_start, led and buzzer.
C7_IdleResetNoOp ==
    [][ (PollStep /\ button' /\ ~alarm_active) =>
            UNCHANGED <<alarm_active, time_start, led, buzzer>> ]_vars

\* C7 (amended): every pass that gets past its scan block reads the button,
\* whatever alarm_active is; a read of pressed while the alarm is not active
\* leaves alarm_active false and both outputs off and sets time_start to the
\* clock, so the next scan is not due before a full scan_interval after it.
C7_IdleResetRestartsWindow ==
    [][ /\ (ScanBlockStep /\ pc' # "crashed") => pc' = "poll"
        /\ (pc = "poll" /\ pc' # "poll") => PollStep
        /\ (PollStep /\ button' /\ ~alarm_active) =>
              /\ ~alarm_active'
              /\ ~led'
              /\ ~buzzer'
              /\ time_start' = now
              /\ ~ScanDue' ]_vars

\* C7 witness: a pass that started idle and ran no scan read the button pressed
\* after the clock had moved, and the window now starts at that read.
C7_Witness ==
    /\ pc = "loop"
    /\ button
    /\ ~alarm_at_top
    /\ ~scanned
    /\ ~alarm_active
    /\ ~led
    /\ ~buzzer
    /\ time_start = now
    /\ time_start > 0

\* C8: for every non-empty frame white_pixel_ratio returns (number of positions
\* holding exactly 255) / (number of positions); for the 3x3 diagonal frame of
\* the test that is 1/3.
C8_WhitePixelRatio ==
    coverage_ratio # NoRatio =>
        /\ coverage_ratio[1] = Cardinality({ p \in Positions(img) : img[p[1]][p[2]] = White })
        /\ coverage_ratio[2] = Cardinality(Positions(img))
        /\ coverage_ratio[2] > 0
        /\ (img = Diag3 => coverage_ratio[1] * 3 = coverage_ratio[2] * 1)

\* C8 witness: the ratio of the diagonal frame has been computed as 3 out of 9.
C8_Witness ==
    /\ img = Diag3
    /\ coverage_ratio = <<3, 9>>

\* C9 (as stated): write_image returns True when cv.imwrite saved the image
\* and returns False when it did not.
C9_WriteImageReturnsBool ==
    write_out # NoWrite =>
        /\ write_out.kind = "return"
        /\ write_out.value = (IF imwrite_ok THEN "True" ELSE "False")

\* C10: at every boundary between two passes of the loop, the LED is on if and
\* only if the buzzer is on if and only if alarm_active is true.
C10_OutputsMirrorAlarm ==
    pc = "loop" => ((led <=> alarm_active) /\ (buzzer <=> alarm_active))

\* C10 witness: a pass raised the alarm and read the button pressed, and at its
\* end the alarm and both outputs are off.
C10_Witness ==
    /\ pc = "loop"
    /\ scanned
    /\ outcome = "ok"
    /\ ExceedsThreshold(coverage_ratio)
    /\ button
    /\ ~alarm_active
    /\ ~led
    /\ ~buzzer

====
